---------------------------- MODULE Spec2Model ----------------------------
(***************************************************************************)
(* Argus distributed test execution: the Coordination Store lists (task    *)
(* queue, result channel), the worker loop (DistributedTestRunner), the    *)
(* controller (DistributedTestController / main), the node registry with   *)
(* its heartbeat thread, and the advisory lock.                            *)
(*                                                                         *)
(* Store commands (BLPOP, RPUSH, LPOP, DEL, LLEN, HSET, EXPIRE, SET NX EX) *)
(* are atomic, one step each.  A store call may fail (the client raises);  *)
(* the number of failing calls in one behaviour is bounded by faultBudget. *)
(* Wall-clock time is the variable now, in seconds.                        *)
(***************************************************************************)
EXTENDS Integers, Sequences, FiniteSets, Bags, TLC

\* ------------------------------------------------------------------ bounds
NumWorkers == 2
MaxTests == 2
MaxRuns == 2
MaxFaults == 1
MaxTimeout == 20
MaxDefs == 3
MaxRecords == 5
MaxBuckets == 2
MaxFiles == 3
MaxResults == 3
Horizon == 330

\* ------------------------------------------------------- program constants
\* run_worker(max_tasks=None), --max-tasks without a default
None == -1
\* wait_for_completion(check_interval=5)
CheckInterval == 5
\* wait_for_completion: last_queue_size = -1
NoQueueSize == -1
\* register_node / update_node_status: expire(node_key, 300)
NodeTTL == 300
\* start_heartbeat(interval=30)
HeartbeatInterval == 30
\* acquire_lock(timeout=10)
LockTTL == 10
\* create_tasks: "max_retries": 2
MaxRetries == 2

Workers == 1..NumWorkers
TimeoutChoices == {1, MaxTimeout}
MaxTasksChoices == {None} \cup (0..MaxTests)
Statuses == {"passed", "failed", "error", "timeout"}

VARIABLES
    taskQueue,     \* store list argus:distributed:task_queue
    resultQueue,   \* store list argus:distributed:result_queue
    faultBudget,   \* store calls that may still fail
    now,           \* wall clock, seconds
    wk,            \* per worker process: run_worker's locals
    ctl,           \* the controller process: main / DistributedTestController
    nodeKey,       \* store hash argus:distributed:nodes:<node_id> of one worker
    nd,            \* that worker process, thread by thread (main, heartbeat)
    lockKey,       \* store key argus:distributed:lock:<name> of one lock name
    lk,            \* per node: its acquire_lock / release_lock calls
    col,           \* a TestCollector and the sources it reads
    hist           \* history of deliveries, appends and writes (not program state)

vars == <<taskQueue, resultQueue, faultBudget, now, wk, ctl, nodeKey, nd,
          lockKey, lk, col, hist>>

\* The node registry, the lock and the collector, which the queue traffic
\* leaves alone
regVars == <<nodeKey, nd, lockKey, lk, col>>
\* The lists, the processes around them and the collector, which the registry
\* and the lock leave alone
runVars == <<taskQueue, resultQueue, wk, ctl, col>>

\* A Task of the wire format, reduced to its identity.  run is the controller
\* run that built it: the wire format cannot tell two builds of one test apart.
\* A faulty variant of Task, for comparison: built as a retry past the limit
TaskRetried(id, run) ==
    [task_id |-> id, run |-> run, retry_count |-> MaxRetries + 1,
     max_retries |-> MaxRetries]

Task(id, run) ==
    [task_id |-> id, run |-> run, retry_count |-> 0, max_retries |-> MaxRetries]
NoTask == [task_id |-> 0, run |-> 0, retry_count |-> 0, max_retries |-> 0]
NoResult == [task_id |-> 0, run |-> 0, node_id |-> 0, status |-> "unknown"]
\* A Result as it lies in the result channel; epoch is the last run whose
\* dispatch had completed when it was pushed (history, not in the wire format)
Stored(result, epoch) ==
    [task_id |-> result.task_id, run |-> result.run, node_id |-> result.node_id,
     status |-> result.status, epoch |-> epoch]

\* Outcomes of one store call: TRUE the command is served, FALSE the client raises.
StoreOutcomes == IF faultBudget > 0 THEN {TRUE, FALSE} ELSE {TRUE}
Spend(ok) == IF ok THEN faultBudget ELSE faultBudget - 1

\* ------------------------------------------------------------- the worker
InitWorker(mt) ==
    [pc |-> "init", max_tasks |-> mt, tasks_executed |-> 0,
     task |-> NoTask, result |-> NoResult, outcome |-> "none"]

\* A worker process that is never started
AbsentWorker == [InitWorker(None) EXCEPT !.pc = "absent"]

\* run_worker up to the loop: register_node, start_heartbeat, tasks_executed = 0
WStart(w) ==
    /\ UNCHANGED regVars
    /\ wk[w].pc = "init"
    /\ wk' = [wk EXCEPT ![w].pc = "loop", ![w].tasks_executed = 0]
    /\ UNCHANGED <<taskQueue, resultQueue, faultBudget, now, ctl, hist>>

\* The loop's exit test: `if max_tasks and tasks_executed >= max_tasks`
MaxTasksReached(max_tasks, tasks_executed) ==
    /\ max_tasks # None
    /\ max_tasks # 0
    /\ tasks_executed >= max_tasks

\* A faulty variant of pop_task, for comparison: reads the head (LINDEX 0) and leaves it in the list
pop_task_peek(w, ok, served) ==
    LET got == served /\ Len(taskQueue) > 0
        task == IF got /\ ok THEN Head(taskQueue) ELSE NoTask
    IN  /\ taskQueue' = taskQueue
        /\ faultBudget' = Spend(ok)
        /\ wk' = [wk EXCEPT ![w].task = task,
                            ![w].pc = IF task # NoTask THEN "execute" ELSE "loop"]
        /\ hist' = IF task # NoTask
                   THEN [hist EXCEPT !.delivered = @ (+) SetToBag({<<task, w>>})]
                   ELSE hist

\* pop_task: BLPOP, the head of the list or None; an exception gives None.
\* served: the store ran the command; ok: the client got the reply.  A BLPOP
\* served whose reply is lost (socket_timeout=5 against a 5 s block) removes
\* the head and returns None.
pop_task(w, ok, served) ==
    LET got == served /\ Len(taskQueue) > 0
        task == IF got /\ ok THEN Head(taskQueue) ELSE NoTask
    IN  /\ taskQueue' = IF got THEN Tail(taskQueue) ELSE taskQueue
        /\ faultBudget' = Spend(ok)
        /\ wk' = [wk EXCEPT ![w].task = task,
                            ![w].pc = IF task # NoTask THEN "execute" ELSE "loop"]
        /\ hist' = IF task # NoTask
                   THEN [hist EXCEPT !.delivered = @ (+) SetToBag({<<task, w>>})]
                   ELSE hist

\* One pass of run_worker's while loop up to the pop: the exit test, then
\* pop_task; without a task the worker sleeps 1 s and comes back here.
WLoop(w) ==
    /\ UNCHANGED regVars
    /\ wk[w].pc = "loop"
    /\ IF MaxTasksReached(wk[w].max_tasks, wk[w].tasks_executed)
       THEN /\ wk' = [wk EXCEPT ![w].pc = "stopped"]
            /\ UNCHANGED <<taskQueue, faultBudget, hist>>
       ELSE \E ok \in StoreOutcomes, served \in BOOLEAN :
                /\ (ok => served)
                /\ pop_task(w, ok, served)
    /\ UNCHANGED <<resultQueue, now, ctl>>

\* A faulty variant of execute_task, for comparison: no `except Exception`
\* clause sets the status
execute_task_unclassified(task, node_id, outcome) ==
    [task_id |-> task.task_id, run |-> task.run, node_id |-> node_id,
     status |-> CASE outcome = "rc0" -> "passed"
                  [] outcome = "rc1" -> "failed"
                  [] outcome = "TimeoutExpired" -> "timeout"
                  [] OTHER -> "unknown"]

\* execute_task: the external run ends in one of four ways and the result
\* dict gets its status
execute_task(task, node_id, outcome) ==
    [task_id |-> task.task_id, run |-> task.run, node_id |-> node_id,
     status |-> CASE outcome = "rc0" -> "passed"
                  [] outcome = "rc1" -> "failed"
                  [] outcome = "TimeoutExpired" -> "timeout"
                  [] OTHER -> "error"]

Outcomes == {"rc0", "rc1", "TimeoutExpired", "Exception"}

\* A faulty variant of Caught, for comparison: an exception of the run leaves
\* execute_task and run_worker, whose try has no handler for it
Uncaught(outcome) == IF outcome = "Exception" THEN "crashed" ELSE "push"

\* execute_task lines 337-348: both except clauses and the finally block fall
\* through to `return result`; run_worker goes on to push_result
Caught(outcome) == "push"

WExecute(w) ==
    /\ UNCHANGED regVars
    /\ wk[w].pc = "execute"
    /\ \E outcome \in Outcomes :
        /\ wk' = [wk EXCEPT ![w].result = execute_task(wk[w].task, w, outcome),
                            ![w].outcome = outcome,
                            ![w].pc = Caught(outcome)]
    /\ UNCHANGED <<taskQueue, resultQueue, faultBudget, now, ctl, hist>>

\* A faulty variant of push_result, for comparison: the Result is sent again
\* after the first RPUSH
push_result_twice(result, ok) ==
    IF ok THEN resultQueue \o <<Stored(result, hist.dispatched),
                                 Stored(result, hist.dispatched)>>
    ELSE resultQueue

\* A faulty variant of push_result, for comparison: LPUSH, at the head
push_result_lpush(result, ok) ==
    IF ok THEN <<Stored(result, hist.dispatched)>> \o resultQueue ELSE resultQueue

\* push_result: RPUSH; an exception is logged and swallowed
push_result(result, ok) ==
    IF ok THEN Append(resultQueue, Stored(result, hist.dispatched)) ELSE resultQueue

\* run_worker lines 382-384: push_result(result); tasks_executed += 1
WPushResult(w) ==
    /\ UNCHANGED regVars
    /\ wk[w].pc = "push"
    /\ \E ok \in StoreOutcomes :
        /\ resultQueue' = push_result(wk[w].result, ok)
        /\ faultBudget' = Spend(ok)
        /\ hist' = IF resultQueue' # resultQueue
                   THEN [hist EXCEPT !.appended = @ (+) SetToBag({<<wk[w].task, w>>})]
                   ELSE hist
    /\ wk' = [wk EXCEPT ![w].pc = "loop",
                        ![w].tasks_executed = @ + 1,
                        ![w].task = NoTask, ![w].result = NoResult,
                        ![w].outcome = "none"]
    /\ UNCHANGED <<taskQueue, now, ctl>>

\* A faulty variant of WCrash, for comparison: the task a dead worker held
\* is put back in the task queue
WCrashRequeue(w) ==
    /\ UNCHANGED regVars
    /\ wk[w].pc \in {"loop", "execute", "push"}
    /\ wk' = [wk EXCEPT ![w].pc = "crashed"]
    /\ taskQueue' = IF wk[w].task # NoTask THEN Append(taskQueue, wk[w].task)
                                           ELSE taskQueue
    /\ UNCHANGED <<resultQueue, faultBudget, now, ctl, hist>>

\* The worker process is killed (no finally block runs)
WCrash(w) ==
    /\ UNCHANGED regVars
    /\ wk[w].pc \in {"loop", "execute", "push"}
    /\ wk' = [wk EXCEPT ![w].pc = "crashed"]
    /\ UNCHANGED <<taskQueue, resultQueue, faultBudget, now, ctl, hist>>

\* KeyboardInterrupt in run_worker's try block: it is no Exception, so
\* execute_task does not turn it into a Result; run_worker's except and
\* finally blocks run (stop_heartbeat, unregister_node) and the worker ends.
WInterrupt(w) ==
    /\ UNCHANGED regVars
    /\ wk[w].pc \in {"loop", "execute", "push"}
    /\ wk' = [wk EXCEPT ![w].pc = "stopped"]
    /\ UNCHANGED <<taskQueue, resultQueue, faultBudget, now, ctl, hist>>

\* --------------------------------------------------------- the controller
NoReport == [summary |-> [total |-> None]]

InitController(run) ==
    [pc |-> "collect", run |-> run, tasks |-> <<>>, timeout |-> None,
     start_time |-> None, end_time |-> None,
     last_queue_size |-> NoQueueSize, no_change_count |-> 0,
     results |-> <<>>, report |-> NoReport, exit_code |-> None,
     wait_exit |-> "none"]

\* TestCollector.create_tasks: one task per collected test, in order
create_tasks(n, run) == [i \in 1..n |-> Task(i, run)]

\* collect_and_distribute_tests lines 48-62: collect; no tests: return
\* (nothing is cleared or pushed); else build the tasks
CtlCollect ==
    /\ UNCHANGED regVars
    /\ ctl.pc = "collect"
    /\ \E n \in 0..MaxTests :
        ctl' = [ctl EXCEPT !.tasks = create_tasks(n, ctl.run),
                           !.pc = IF n = 0 THEN "wait_init" ELSE "clear_tasks"]
    /\ UNCHANGED <<taskQueue, resultQueue, faultBudget, now, wk, hist>>

\* clear_queue, first command: DEL task_queue.  An exception leaves the try
\* block: the second DEL is skipped and the error is logged.
CtlClearTasks ==
    /\ UNCHANGED regVars
    /\ ctl.pc = "clear_tasks"
    /\ \E ok \in StoreOutcomes :
        /\ taskQueue' = IF ok THEN <<>> ELSE taskQueue
        /\ faultBudget' = Spend(ok)
        /\ ctl' = [ctl EXCEPT !.pc = IF ok THEN "clear_results" ELSE "push"]
    /\ UNCHANGED <<resultQueue, now, wk, hist>>

\* clear_queue, second command: DEL result_queue
CtlClearResults ==
    /\ UNCHANGED regVars
    /\ ctl.pc = "clear_results"
    /\ \E ok \in StoreOutcomes :
        /\ resultQueue' = IF ok THEN <<>> ELSE resultQueue
        /\ faultBudget' = Spend(ok)
    /\ ctl' = [ctl EXCEPT !.pc = "push"]
    /\ UNCHANGED <<taskQueue, now, wk, hist>>

\* A faulty variant of push_tasks, for comparison: only the last RPUSH of the
\* pipeline is sent
push_tasks_last(tasks, ok) ==
    IF ok /\ tasks # <<>> THEN Append(taskQueue, tasks[Len(tasks)]) ELSE taskQueue

\* push_tasks: one pipeline (MULTI/EXEC) of RPUSHes; an exception is raised
\* again and ends the controller process
push_tasks(tasks, ok) ==
    IF ok THEN taskQueue \o tasks ELSE taskQueue

CtlPush ==
    /\ UNCHANGED regVars
    /\ ctl.pc = "push"
    /\ \E ok \in StoreOutcomes :
        /\ taskQueue' = push_tasks(ctl.tasks, ok)
        /\ faultBudget' = Spend(ok)
        /\ ctl' = [ctl EXCEPT !.pc = IF ok THEN "wait_init" ELSE "crashed"]
        /\ hist' = IF ok
                   THEN [hist EXCEPT !.pushed = @ \cup {ctl.tasks[i] : i \in 1..Len(ctl.tasks)},
                                     !.dispatched = ctl.run]
                   ELSE hist
    /\ UNCHANGED <<resultQueue, now, wk>>

\* wait_for_completion lines 85-87, with main's --timeout
CtlWaitInit ==
    /\ UNCHANGED regVars
    /\ ctl.pc = "wait_init"
    /\ \E t \in TimeoutChoices :
        ctl' = [ctl EXCEPT !.timeout = t, !.start_time = now,
                           !.last_queue_size = NoQueueSize,
                           !.no_change_count = 0, !.pc = "wait"]
    /\ hist' = [hist EXCEPT !.zero_reads = 0]
    /\ UNCHANGED <<taskQueue, resultQueue, faultBudget, now, wk>>

\* A faulty variant of get_queue_size, for comparison: always 0
get_queue_size_zero(ok) == 0

\* get_queue_size: LLEN; an exception is logged and 0 is returned
get_queue_size(ok) == IF ok THEN Len(taskQueue) ELSE 0

\* A faulty variant of Debounce, for comparison: a non-zero read leaves the counter as it is
DebounceNoReset(queue_size, no_change_count) ==
    IF queue_size = 0
    THEN IF no_change_count >= 3
         THEN <<TRUE, no_change_count>>
         ELSE <<FALSE, no_change_count + 1>>
    ELSE <<FALSE, no_change_count>>

\* The debounce of wait_for_completion lines 107-114 on one read:
\* <<leave the loop, new no_change_count>>
Debounce(queue_size, no_change_count) ==
    IF queue_size = 0
    THEN IF no_change_count >= 3
         THEN <<TRUE, no_change_count>>
         ELSE <<FALSE, no_change_count + 1>>
    ELSE <<FALSE, 0>>

\* A faulty variant of LeaveWait, for comparison: the exit is logged but the loop is not left
LeaveWaitNoBreak(reason, t) ==
    [ctl EXCEPT !.wait_exit = reason]

\* wait_for_completion lines 95, 111 and 123: the log line, break, and
\* end_time = time.time(); main goes on to collect_results
LeaveWait(reason, t) ==
    [ctl EXCEPT !.pc = "drain", !.end_time = t, !.wait_exit = reason]

\* One pass of wait_for_completion's loop: the timeout test, the reads
\* (get_active_nodes only feeds the log), the debounce, sleep(check_interval).
\* Time passes in the sleep.
CtlWaitIter ==
    /\ UNCHANGED regVars
    /\ ctl.pc = "wait"
    /\ LET elapsed == now - ctl.start_time IN
       IF elapsed > ctl.timeout
       THEN /\ ctl' = LeaveWait("timeout", now)
            /\ UNCHANGED <<faultBudget, now, hist>>
       ELSE \E ok \in StoreOutcomes :
            LET queue_size == get_queue_size(ok)
                d == Debounce(queue_size, ctl.no_change_count)
            IN  /\ faultBudget' = Spend(ok)
                /\ hist' = [hist EXCEPT !.zero_reads =
                                IF queue_size = 0 THEN @ + 1 ELSE 0]
                /\ IF d[1]
                   THEN /\ ctl' = LeaveWait("complete", now)
                        /\ now' = now
                   ELSE /\ ctl' = [ctl EXCEPT !.no_change_count = d[2],
                                              !.last_queue_size = queue_size]
                        /\ now' = now + CheckInterval
    /\ UNCHANGED <<taskQueue, resultQueue, wk>>

\* A faulty variant of Lpop, for comparison: the head is read and the whole
\* list deleted
ReadAndDelete(queue) == <<>>

\* What LPOP leaves of a list that is not empty
Lpop(queue) == Tail(queue)

\* get_all_results, one pass of its loop: LPOP; empty ends the drain; an
\* exception returns [] whatever was popped before
CtlDrainStep ==
    /\ UNCHANGED regVars
    /\ ctl.pc = "drain"
    /\ \E ok \in StoreOutcomes :
        /\ faultBudget' = Spend(ok)
        /\ hist' = IF ok THEN hist ELSE [hist EXCEPT !.drain_failed = TRUE]
        /\ IF ~ok
           THEN /\ ctl' = [ctl EXCEPT !.results = <<>>, !.pc = "report"]
                /\ UNCHANGED resultQueue
           ELSE IF resultQueue = <<>>
           THEN /\ ctl' = [ctl EXCEPT !.pc = "report"]
                /\ UNCHANGED resultQueue
           ELSE /\ ctl' = [ctl EXCEPT !.results = Append(@, Head(resultQueue))]
                /\ resultQueue' = Lpop(resultQueue)
    /\ UNCHANGED <<taskQueue, now, wk>>

CountStatus(results, status) ==
    Cardinality({i \in 1..Len(results) : results[i].status = status})

NodeIds(results) == {results[i].node_id : i \in 1..Len(results)}

\* A faulty variant of generate_report, for comparison: a node's total is
\* counted only in the passed and failed branches
generate_report_counted(results, start_time, end_time) ==
    LET total == Len(results)
        passed == CountStatus(results, "passed")
        OfNode(n) == SelectSeq(results, LAMBDA r : r.node_id = n)
    IN  [summary |->
            [total |-> total,
             passed |-> passed,
             failed |-> CountStatus(results, "failed"),
             error |-> CountStatus(results, "error"),
             timeout |-> CountStatus(results, "timeout"),
             pass_rate |-> IF total > 0 THEN (passed * 10000) \div total ELSE 0,
             total_duration |-> IF start_time # None /\ end_time # None
                                THEN end_time - start_time ELSE 0,
             start_time |-> start_time,
             end_time |-> end_time],
         node_statistics |->
            [n \in NodeIds(results) |->
                [total |-> CountStatus(OfNode(n), "passed")
                           + CountStatus(OfNode(n), "failed"),
                 passed |-> CountStatus(OfNode(n), "passed"),
                 failed |-> CountStatus(OfNode(n), "failed")]],
         results |-> results]

\* generate_report lines 148-185: the report dict
generate_report(results, start_time, end_time) ==
    LET total == Len(results)
        passed == CountStatus(results, "passed")
        OfNode(n) == SelectSeq(results, LAMBDA r : r.node_id = n)
    IN  [summary |->
            [total |-> total,
             passed |-> passed,
             failed |-> CountStatus(results, "failed"),
             error |-> CountStatus(results, "error"),
             timeout |-> CountStatus(results, "timeout"),
             pass_rate |-> IF total > 0 THEN (passed * 10000) \div total ELSE 0,
             total_duration |-> IF start_time # None /\ end_time # None
                                THEN end_time - start_time ELSE 0,
             start_time |-> start_time,
             end_time |-> end_time],
         node_statistics |->
            [n \in NodeIds(results) |->
                [total |-> Len(OfNode(n)),
                 passed |-> CountStatus(OfNode(n), "passed"),
                 failed |-> CountStatus(OfNode(n), "failed")]],
         results |-> results]

\* A faulty variant of ExitCode, for comparison: a timeout counts as a failure
ExitCodeStrict(report) ==
    IF report.summary.passed < report.summary.total THEN 1 ELSE 0

\* main lines 292-298: the exit code
ExitCode(report) ==
    IF report.summary.failed > 0 \/ report.summary.error > 0 THEN 1 ELSE 0

\* A faulty variant of CtlReport, for comparison: the finishing controller
\* deletes the task queue
CtlReportAndClear ==
    /\ UNCHANGED regVars
    /\ ctl.pc = "report"
    /\ LET report == generate_report(ctl.results, ctl.start_time, ctl.end_time)
       IN  ctl' = [ctl EXCEPT !.report = report, !.exit_code = ExitCode(report),
                              !.pc = "done"]
    /\ taskQueue' = <<>>
    /\ UNCHANGED <<resultQueue, faultBudget, now, wk, hist>>

CtlReport ==
    /\ UNCHANGED regVars
    /\ ctl.pc = "report"
    /\ LET report == generate_report(ctl.results, ctl.start_time, ctl.end_time)
       IN  ctl' = [ctl EXCEPT !.report = report, !.exit_code = ExitCode(report),
                              !.pc = "done"]
    /\ UNCHANGED <<taskQueue, resultQueue, faultBudget, now, wk, hist>>

\* The next controller process is started (a new run of main)
CtlNextRun ==
    /\ UNCHANGED regVars
    /\ ctl.pc \in {"done", "crashed"}
    /\ ctl.run < MaxRuns
    /\ ctl' = InitController(ctl.run + 1)
    /\ UNCHANGED <<taskQueue, resultQueue, faultBudget, now, wk, hist>>

\* ------------------------------------------ the store's expiring keys
NoNodeKey == [present |-> FALSE, expire_at |-> None, status |-> "none"]
NoLockKey == [present |-> FALSE, expire_at |-> None, value |-> 0]

\* HSET key mapping: fields of a key that exists are overwritten and its TTL
\* stays; a key that does not exist is created without a TTL
Hset(key, status) ==
    IF key.present THEN [key EXCEPT !.status = status]
    ELSE [present |-> TRUE, expire_at |-> None, status |-> status]

\* EXPIRE key ttl at time t: nothing on a key that does not exist
Expire(key, ttl, t) ==
    IF key.present THEN [key EXCEPT !.expire_at = t + ttl] ELSE key

\* The store drops a key whose TTL has run out at time t
Evict(key, none, t) ==
    IF key.present /\ key.expire_at # None /\ key.expire_at <= t THEN none ELSE key

\* The clock grid of the registry and the lock: half the registry TTL
TickStep == NodeTTL \div 2

\* Time passes; keys whose TTL ran out are gone
Tick ==
    /\ now < Horizon
    /\ now' = now + TickStep
    /\ nodeKey' = Evict(nodeKey, NoNodeKey, now')
    /\ lockKey' = Evict(lockKey, NoLockKey, now')
    /\ hist' = IF lockKey'.present THEN hist ELSE [hist EXCEPT !.lock_grants = {}]
    /\ UNCHANGED <<runVars, faultBudget, nd, lk>>

\* --------------------------- one worker process, thread by thread
\* pc, arg, ret: per thread, its position, the status argument of the
\* update_node_status call it is in, and where that call returns to; info:
\* the counters of node_info; tasks_executed: the local counter of run_worker
InitNode(started) ==
    [pc |-> [main |-> IF started THEN "register" ELSE "absent", hb |-> "none"],
     arg |-> [main |-> "idle", hb |-> "idle"],
     ret |-> [main |-> "loop", hb |-> "sleep"],
     running |-> FALSE, status |-> "idle", wake |-> 0, tasks_executed |-> 0,
     info |-> [tests_passed |-> 0, tests_failed |-> 0, tests_executed |-> 0]]

Threads == {"main", "hb"}

\* A thread leaves update_node_status; the heartbeat goes on to sleep(interval)
Return(th) ==
    [nd EXCEPT !.pc[th] = nd.ret[th],
               !.wake = IF th = "hb" THEN now + HeartbeatInterval ELSE @]

\* The history after a store call of the registry by thread th
Wrote(th, ok) ==
    IF ok THEN [hist EXCEPT !.last_write = now]
    ELSE IF th = "hb" THEN [hist EXCEPT !.hb_failed = TRUE]
    ELSE hist

\* A faulty variant of Logged, for comparison: the exception ends the thread
Raised(th) == [nd EXCEPT !.pc[th] = "exited"]

\* update_node_status lines 131-132: the exception is logged and the call
\* returns to its caller
Logged(th) == Return(th)

\* register_node line 106: HSET; an exception skips the EXPIRE
NRegisterHset ==
    /\ nd.pc.main = "register"
    /\ \E ok \in StoreOutcomes :
        /\ nodeKey' = IF ok THEN Hset(nodeKey, nd.status) ELSE nodeKey
        /\ faultBudget' = Spend(ok)
        /\ hist' = Wrote("main", ok)
        /\ nd' = [nd EXCEPT !.pc.main = IF ok THEN "register_expire"
                                              ELSE "start_heartbeat"]
    /\ UNCHANGED <<runVars, now, lockKey, lk>>

\* register_node line 107: EXPIRE 300
NRegisterExpire ==
    /\ nd.pc.main = "register_expire"
    /\ \E ok \in StoreOutcomes :
        /\ nodeKey' = IF ok THEN Expire(nodeKey, NodeTTL, now) ELSE nodeKey
        /\ faultBudget' = Spend(ok)
        /\ hist' = Wrote("main", ok)
    /\ nd' = [nd EXCEPT !.pc.main = "start_heartbeat"]
    /\ UNCHANGED <<runVars, now, lockKey, lk>>

\* start_heartbeat: running = True, the daemon thread starts
NStartHeartbeat ==
    /\ nd.pc.main = "start_heartbeat"
    /\ nd' = [nd EXCEPT !.pc.main = "loop", !.pc.hb = "check", !.running = TRUE]
    /\ UNCHANGED <<runVars, faultBudget, now, nodeKey, lockKey, lk, hist>>

\* heartbeat: `while self.running`, then the argument self.node_info["status"]
\* of update_node_status is read
HbCheck ==
    /\ nd.pc.hb = "check"
    /\ nd' = IF nd.running
             THEN [nd EXCEPT !.pc.hb = "set", !.arg.hb = nd.status]
             ELSE [nd EXCEPT !.pc.hb = "exited"]
    /\ UNCHANGED <<runVars, faultBudget, now, nodeKey, lockKey, lk, hist>>

\* update_node_status lines 124-126: node_info["status"] = status
UpdSet(th) ==
    /\ nd.pc[th] = "set"
    /\ nd' = [nd EXCEPT !.pc[th] = "hset", !.status = nd.arg[th]]
    /\ UNCHANGED <<runVars, faultBudget, now, nodeKey, lockKey, lk, hist>>

\* update_node_status line 129: HSET; an exception skips the EXPIRE
UpdHset(th) ==
    /\ nd.pc[th] = "hset"
    /\ \E ok \in StoreOutcomes :
        /\ nodeKey' = IF ok THEN Hset(nodeKey, nd.status) ELSE nodeKey
        /\ faultBudget' = Spend(ok)
        /\ hist' = Wrote(th, ok)
        /\ nd' = IF ok THEN [nd EXCEPT !.pc[th] = "expire"] ELSE Logged(th)
    /\ UNCHANGED <<runVars, now, lockKey, lk>>

\* update_node_status line 130: EXPIRE 300
UpdExpire(th) ==
    /\ nd.pc[th] = "expire"
    /\ \E ok \in StoreOutcomes :
        /\ nodeKey' = IF ok THEN Expire(nodeKey, NodeTTL, now) ELSE nodeKey
        /\ faultBudget' = Spend(ok)
        /\ hist' = Wrote(th, ok)
        /\ nd' = IF ok THEN Return(th) ELSE Logged(th)
    /\ UNCHANGED <<runVars, now, lockKey, lk>>

\* heartbeat: time.sleep(interval) returns
HbWake ==
    /\ nd.pc.hb = "sleep"
    /\ now >= nd.wake
    /\ nd' = [nd EXCEPT !.pc.hb = "check"]
    /\ UNCHANGED <<runVars, faultBudget, now, nodeKey, lockKey, lk, hist>>

\* run_worker's loop: max_tasks reached or KeyboardInterrupt leads to the
\* finally block; a popped task leads into execute_task, whose first call is
\* update_node_status("running")
NLoop ==
    /\ nd.pc.main = "loop"
    /\ \/ nd' = [nd EXCEPT !.pc.main = "stop_heartbeat"]
       \/ /\ nd.tasks_executed < MaxTests
          /\ nd' = [nd EXCEPT !.pc.main = "set", !.arg.main = "running",
                              !.ret.main = "run"]
    /\ UNCHANGED <<runVars, faultBudget, now, nodeKey, lockKey, lk, hist>>

\* execute_task: subprocess.run returns and the counters are updated, or it
\* raises (TimeoutExpired, Exception) or KeyboardInterrupt cuts it and the
\* counters are skipped; the finally block calls update_node_status("idle")
\* in every case
NRun ==
    /\ nd.pc.main = "run"
    /\ \E end \in {"returned", "raised", "interrupted"} :
        nd' = IF end = "returned"
              THEN [nd EXCEPT !.pc.main = "count_status"]
              ELSE [nd EXCEPT !.pc.main = "set", !.arg.main = "idle",
                              !.ret.main = IF end = "interrupted"
                                           THEN "stop_heartbeat" ELSE "push"]
    /\ UNCHANGED <<runVars, faultBudget, now, nodeKey, lockKey, lk, hist>>

\* execute_task lines 328-331: tests_passed or tests_failed += 1
NCountStatus ==
    /\ nd.pc.main = "count_status"
    /\ \E passed \in BOOLEAN :
        nd' = IF passed
              THEN [nd EXCEPT !.pc.main = "count_executed", !.info.tests_passed = @ + 1]
              ELSE [nd EXCEPT !.pc.main = "count_executed", !.info.tests_failed = @ + 1]
    /\ UNCHANGED <<runVars, faultBudget, now, nodeKey, lockKey, lk, hist>>

\* execute_task line 332: tests_executed += 1, then the finally block
NCountExecuted ==
    /\ nd.pc.main = "count_executed"
    /\ nd' = [nd EXCEPT !.pc.main = "set", !.arg.main = "idle",
                        !.ret.main = "push", !.info.tests_executed = @ + 1]
    /\ UNCHANGED <<runVars, faultBudget, now, nodeKey, lockKey, lk, hist>>

\* run_worker lines 382-384 seen from the registry: tasks_executed += 1
NPush ==
    /\ nd.pc.main = "push"
    /\ nd' = [nd EXCEPT !.pc.main = "loop", !.tasks_executed = @ + 1]
    /\ UNCHANGED <<runVars, faultBudget, now, nodeKey, lockKey, lk, hist>>

\* stop_heartbeat line 151: running = False
NStopHeartbeat ==
    /\ nd.pc.main = "stop_heartbeat"
    /\ nd' = [nd EXCEPT !.pc.main = "join", !.running = FALSE]
    /\ UNCHANGED <<runVars, faultBudget, now, nodeKey, lockKey, lk, hist>>

\* Thread.join(timeout=5) returns: the thread has ended, or 5 s have passed
\* with the thread blocked in a store call (socket_timeout=5 after
\* socket_connect_timeout=5) or in sleep(30)
JoinReturns(hb_pc) == hb_pc \in {"exited", "hset", "expire", "sleep"}

NJoin ==
    /\ nd.pc.main = "join"
    /\ JoinReturns(nd.pc.hb)
    /\ nd' = [nd EXCEPT !.pc.main = "unregister"]
    /\ UNCHANGED <<runVars, faultBudget, now, nodeKey, lockKey, lk, hist>>

\* unregister_node: DEL; an exception is logged
NUnregister ==
    /\ nd.pc.main = "unregister"
    /\ \E ok \in StoreOutcomes :
        /\ nodeKey' = IF ok THEN NoNodeKey ELSE nodeKey
        /\ faultBudget' = Spend(ok)
        /\ hist' = IF ok THEN [hist EXCEPT !.unregistered = TRUE] ELSE hist
    /\ nd' = [nd EXCEPT !.pc.main = "returned"]
    /\ UNCHANGED <<runVars, now, lockKey, lk>>

\* After run_worker has returned the process ends and takes the daemon
\* thread with it
NProcessExit ==
    /\ nd.pc.main = "returned"
    /\ nd.pc.hb # "exited"
    /\ nd' = [nd EXCEPT !.pc.hb = "exited"]
    /\ UNCHANGED <<runVars, faultBudget, now, nodeKey, lockKey, lk, hist>>

\* The worker process is killed: both threads stop where they are
NCrash ==
    /\ nd.pc.main \notin {"absent", "returned", "crashed"}
    /\ nd' = [nd EXCEPT !.pc.main = "crashed", !.pc.hb = "exited"]
    /\ UNCHANGED <<runVars, faultBudget, now, nodeKey, lockKey, lk, hist>>

\* get_active_nodes: SCAN + HGETALL, the node ids whose key exists
get_active_nodes == IF nodeKey.present THEN {1} ELSE {}

\* --------------------------------------------------- the advisory lock
\* A faulty variant of SetNxEx, for comparison: SET key value EX ttl without NX
SetEx(key, value, ttl, t) ==
    <<[present |-> TRUE, expire_at |-> t + ttl, value |-> value], "True">>

\* SET key value NX EX ttl at time t: <<the key afterwards, the reply>>; the
\* reply is None when the key exists
SetNxEx(key, value, ttl, t) ==
    IF key.present
    THEN <<key, "None">>
    ELSE <<[present |-> TRUE, expire_at |-> t + ttl, value |-> value], "True">>

\* What Python takes for false
Falsy(reply) == reply \in {"None", "False"}

\* acquire_lock by node n: one SET NX EX; an exception returns False.
\* served: the store ran the command; ok: the client got the reply
LockAcquire(n) ==
    /\ lk[n].pc = "idle"
    /\ \E ok \in StoreOutcomes, served \in BOOLEAN :
        /\ (ok => served)
        /\ LET r == IF served THEN SetNxEx(lockKey, n, LockTTL, now)
                              ELSE <<lockKey, "False">>
               reply == IF ok THEN r[2] ELSE "False"
           IN  /\ lockKey' = r[1]
               /\ lk' = [lk EXCEPT ![n].result = reply]
               /\ hist' = IF reply = "True"
                          THEN [hist EXCEPT !.lock_grants = @ \cup {n}]
                          ELSE hist
        /\ faultBudget' = Spend(ok)
    /\ UNCHANGED <<runVars, now, nodeKey, nd>>

\* release_lock line 235: GET and the comparison with node_id; an exception
\* ends the call
LockReleaseGet(n) ==
    /\ lk[n].pc = "idle"
    /\ \E ok \in StoreOutcomes :
        /\ lk' = [lk EXCEPT ![n].pc =
                    IF ok /\ lockKey.present /\ lockKey.value = n
                    THEN "release_del" ELSE "idle"]
        /\ faultBudget' = Spend(ok)
    /\ UNCHANGED <<runVars, now, nodeKey, nd, lockKey, hist>>

\* release_lock line 236: DEL
LockReleaseDel(n) ==
    /\ lk[n].pc = "release_del"
    /\ \E ok \in StoreOutcomes :
        /\ lockKey' = IF ok THEN NoLockKey ELSE lockKey
        /\ faultBudget' = Spend(ok)
        /\ hist' = IF ok THEN [hist EXCEPT !.lock_grants = {}] ELSE hist
    /\ lk' = [lk EXCEPT ![n].pc = "idle"]
    /\ UNCHANGED <<runVars, now, nodeKey, nd>>

\* ----------------------------------------------------------- the collector
\* A path: absolute or relative, and its components
AbsPath(parts) == [abs |-> TRUE, parts |-> parts]
RelPath(parts) == [abs |-> FALSE, parts |-> parts]
Join(path, name) == [path EXCEPT !.parts = Append(@, name)]

\* Directories that hold a checkout of the same sources (tests/test_m.py)
Roots == {"a", "b"}
\* The forms of test_dir: the default "tests", or the absolute path
TestDirs == {RelPath(<<"tests">>)} \cup {AbsPath(<<r, "tests">>) : r \in Roots}

\* Path.relative_to: the rest of path below dir; ValueError when dir is not a
\* leading part of path or one is relative and the other absolute
relative_to(path, dir) ==
    IF /\ path.abs = dir.abs
       /\ Len(dir.parts) <= Len(path.parts)
       /\ SubSeq(path.parts, 1, Len(dir.parts)) = dir.parts
    THEN [raised |-> FALSE,
          value |-> RelPath(SubSeq(path.parts, Len(dir.parts) + 1, Len(path.parts)))]
    ELSE [raised |-> TRUE, value |-> RelPath(<<>>)]

\* Names, split after the prefix that str.startswith looks at
FunctionNames == {<<"test_", "a">>, <<"", "helper">>}
ClassNames == {<<"Test", "A">>, <<"", "Helper">>}
startswith(name, prefix) == name[1] = prefix

\* The definitions of a source file, in the order of their lines: node i is a
\* def or a class at line i, directly inside node parent (0: module scope)
Nodes ==
    [kind : {"FunctionDef"}, name : FunctionNames, parent : 0..(MaxDefs - 1)]
    \cup [kind : {"ClassDef"}, name : ClassNames, parent : 0..(MaxDefs - 1)]
Sources ==
    UNION {{src \in [1..n -> Nodes] : \A i \in 1..n : src[i].parent < i}
           : n \in 0..MaxDefs}

\* node.body: the definitions directly inside node p, in line order
Body(src, p) ==
    SelectSeq([i \in 1..Len(src) |-> i], LAMBDA i : src[i].parent = p)

RECURSIVE Bodies(_, _)
Bodies(src, nodes) ==
    IF nodes = <<>> THEN <<>>
    ELSE Body(src, Head(nodes)) \o Bodies(src, Tail(nodes))

\* ast.walk below a list of nodes: breadth first, each node before its body
RECURSIVE Walk(_, _)
Walk(src, nodes) ==
    IF nodes = <<>> THEN <<>>
    ELSE nodes \o Walk(src, Bodies(src, nodes))

\* _generate_test_id: md5 of "{file_path}::{test_name}", 16 hex digits; the
\* digest stands for the string it was taken of
_generate_test_id(file_path, test_name) == <<file_path, test_name>>

\* _extract_test_info of the def at line i; test_name is "Class::name" or
\* "name"; the record, or the ValueError of relative_to(cwd). The sources
\* here carry no decorators, so markers is empty; docstring and full_name
\* are left out
_extract_test_info(src, i, file_path, class_name, cwd) ==
    LET test_name == <<class_name, src[i].name>>
        rel_path == relative_to(file_path, cwd)
    IN  [raised |-> rel_path.raised,
         info |-> [test_id |-> _generate_test_id(file_path, test_name),
                   test_file |-> rel_path.value,
                   test_name |-> test_name,
                   class_name |-> class_name,
                   function_name |-> src[i].name,
                   markers |-> {},
                   line_number |-> i]]

IsTestFunction(src, i) ==
    src[i].kind = "FunctionDef" /\ startswith(src[i].name, "test_")

\* What the loop body of _parse_test_file asks of _extract_test_info for one
\* walked node: <<line, class_name>> pairs, in order
Extractions(src, n) ==
    IF IsTestFunction(src, n) THEN <<<<n, <<>>>>>>
    ELSE IF src[n].kind = "ClassDef" /\ startswith(src[n].name, "Test")
    THEN [k \in 1..Len(SelectSeq(Body(src, n), LAMBDA i : IsTestFunction(src, i)))
            |-> <<SelectSeq(Body(src, n), LAMBDA i : IsTestFunction(src, i))[k],
                  src[n].name>>]
    ELSE <<>>

RECURSIVE ExtractAll(_, _, _, _, _)
ExtractAll(src, asked, file_path, cwd, tests) ==
    IF asked = <<>> THEN [raised |-> FALSE, tests |-> tests]
    ELSE LET e == _extract_test_info(src, Head(asked)[1], file_path,
                                     Head(asked)[2], cwd)
         IN  IF e.raised THEN [raised |-> TRUE, tests |-> tests]
             ELSE ExtractAll(src, Tail(asked), file_path, cwd,
                             Append(tests, e.info))

\* _parse_test_file: the loop over ast.walk; an exception ends the loop and
\* the records appended so far are returned
RECURSIVE ParseNodes(_, _, _, _, _)
ParseNodes(src, order, file_path, cwd, tests) ==
    IF order = <<>> THEN tests
    ELSE LET r == ExtractAll(src, Extractions(src, Head(order)), file_path,
                             cwd, tests)
         IN  IF r.raised THEN r.tests
             ELSE ParseNodes(src, Tail(order), file_path, cwd, r.tests)

_parse_test_file(src, file_path, cwd) ==
    ParseNodes(src, Walk(src, Body(src, 0)), file_path, cwd, <<>>)

\* collect_tests without filters: test_dir.rglob("test_*.py") finds the one
\* file test_m.py below test_dir
collect_tests(src, test_dir, cwd) ==
    _parse_test_file(src, Join(test_dir, "test_m.py"), cwd)

NoCollector ==
    [pc |-> "none", source |-> <<>>, cwd |-> "", test_dir |-> RelPath(<<>>),
     tests |-> <<>>, before |-> <<>>, num_workers |-> 0, buckets |-> <<>>,
     tasks |-> <<>>, files |-> <<>>]

\* TestCollector(test_dir).collect_tests() in a process whose working
\* directory is the checkout cwd; before keeps the records of the collection
\* before this one
Collect ==
    /\ col.pc \in {"new", "collected"}
    /\ \E cwd \in Roots, test_dir \in TestDirs :
        col' = [col EXCEPT !.pc = IF col.pc = "new" THEN "collected" ELSE "again",
                           !.cwd = cwd, !.test_dir = test_dir,
                           !.tests = collect_tests(col.source, test_dir,
                                                   AbsPath(<<cwd>>)),
                           !.before = col.tests]
    /\ UNCHANGED <<taskQueue, resultQueue, faultBudget, now, wk, ctl, nodeKey,
                   nd, lockKey, lk, hist>>

\* estimate_test_duration, in half seconds: 5.0 s, times 3 (slow), times 2
\* (integration), times 1.5 (web), times 0.8 (api); every product is a whole
\* number of half seconds and exact in floating point
estimate_test_duration(test) ==
    LET base_time == 10
        slow == IF "slow" \in test.markers THEN base_time * 3 ELSE base_time
        integration == IF "integration" \in test.markers THEN slow * 2 ELSE slow
        web == IF "web" \in test.markers THEN (integration * 3) \div 2
               ELSE integration
    IN  IF "api" \in test.markers THEN (web * 4) \div 5 ELSE web

\* list.sort(key=duration, reverse=True): stable, equal durations keep their
\* order
RECURSIVE InsertDesc(_, _)
InsertDesc(sorted, test) ==
    IF sorted = <<>> THEN <<test>>
    ELSE IF estimate_test_duration(Head(sorted)) >= estimate_test_duration(test)
    THEN <<Head(sorted)>> \o InsertDesc(Tail(sorted), test)
    ELSE <<test>> \o sorted

RECURSIVE SortDescFrom(_, _)
SortDescFrom(sorted, tests) ==
    IF tests = <<>> THEN sorted
    ELSE SortDescFrom(InsertDesc(sorted, Head(tests)), Tail(tests))

\* A faulty variant of SortDesc, for comparison: the list is left in the
\* order of collection
Unsorted(tests) == tests

SortDesc(tests) == SortDescFrom(<<>>, tests)

\* min(workers, key=total_time): the first worker with the least total
MinWorker(workers) ==
    CHOOSE i \in 1..Len(workers) :
        /\ \A j \in 1..Len(workers) : workers[i].total_time <= workers[j].total_time
        /\ \A j \in 1..(i - 1) : workers[j].total_time > workers[i].total_time

\* The greedy loop of balance_tests
RECURSIVE Assign(_, _)
Assign(test_durations, workers) ==
    IF test_durations = <<>> THEN workers
    ELSE LET test == Head(test_durations)
             min_worker == MinWorker(workers)
         IN  Assign(Tail(test_durations),
                    [workers EXCEPT
                        ![min_worker].tests = Append(@, test),
                        ![min_worker].total_time = @ + estimate_test_duration(test)])

\* A faulty variant of balance_tests, for comparison: the buckets are one
\* shared list, so every bucket holds every record
balance_tests_shared(tests, num_workers) ==
    [w \in 1..num_workers |-> SortDesc(tests)]

balance_tests(tests, num_workers) ==
    IF tests = <<>> THEN [w \in 1..num_workers |-> <<>>]
    ELSE LET workers ==
                Assign(SortDesc(tests),
                       [w \in 1..num_workers |-> [tests |-> <<>>, total_time |-> 0]])
         IN  [w \in 1..num_workers |-> workers[w].tests]

\* The marker lists of the collected records
MarkerSets == {{}, {"api"}, {"web", "api"}, {"integration"}}

\* collector.balance_tests(num_workers) on the collected list
Balance ==
    /\ col.pc = "ready"
    /\ \E num_workers \in 1..MaxBuckets :
        col' = [col EXCEPT !.pc = "balanced", !.num_workers = num_workers,
                           !.buckets = balance_tests(col.tests, num_workers)]
    /\ UNCHANGED <<taskQueue, resultQueue, faultBudget, now, wk, ctl, nodeKey,
                   nd, lockKey, lk, hist>>

\* A faulty variant of TaskOf, for comparison: the slow timeout is applied
\* after the integration timeout
TaskOfSlowLast(test) ==
    [task_id |-> test.test_id,
     markers |-> test.markers,
     timeout |-> IF "slow" \in test.markers THEN 600
                 ELSE IF "integration" \in test.markers THEN 900 ELSE 300,
     retry_count |-> 0,
     max_retries |-> MaxRetries]

\* The task dict that the loop body of TestCollector.create_tasks builds for
\* one record: timeout 300, then 600 if slow, then 900 if integration
TaskOf(test) ==
    LET default == 300
        slow == IF "slow" \in test.markers THEN 600 ELSE default
    IN  [task_id |-> test.test_id,
         markers |-> test.markers,
         timeout |-> IF "integration" \in test.markers THEN 900 ELSE slow,
         retry_count |-> 0,
         max_retries |-> MaxRetries]

\* The marker lists that decide a task's timeout
TimeoutMarkerSets == (SUBSET {"slow", "integration"}) \cup {{"api"}}

\* collector.create_tasks() on the collected list
CreateTasks ==
    /\ col.pc = "ready"
    /\ col' = [col EXCEPT !.pc = "tasks",
                          !.tasks = [i \in 1..Len(col.tests) |-> TaskOf(col.tests[i])]]
    /\ UNCHANGED <<taskQueue, resultQueue, faultBudget, now, wk, ctl, nodeKey,
                   nd, lockKey, lk, hist>>

\* The files test_*.py below test_dir, in the order rglob yields them
FileNames == <<"test_1.py", "test_2.py", "test_3.py", "test_4.py">>

\* What a file holds: text that ast.parse rejects, or definitions
Unparseable == [parseable |-> FALSE, source |-> <<>>]
Parseable(src) == [parseable |-> TRUE, source |-> src]
FileContents ==
    {Unparseable} \cup {Parseable(src) : src \in {t \in Sources : Len(t) <= 1}}

\* A faulty variant of Handled, for comparison: the exception leaves
\* _parse_test_file
Propagated(tests) == [raised |-> TRUE, tests |-> tests]

\* The except clause of _parse_test_file: the error is logged and the list
\* built so far is returned
Handled(tests) == [raised |-> FALSE, tests |-> tests]

\* _parse_test_file on a file that may not parse: ast.parse raises before
\* any node is visited
ParseFile(file, file_path, cwd) ==
    IF file.parseable
    THEN [raised |-> FALSE, tests |-> _parse_test_file(file.source, file_path, cwd)]
    ELSE Handled(<<>>)

\* The loop of collect_tests over the files found; an exception that reaches
\* it ends the collection
RECURSIVE CollectFrom(_, _, _, _, _)
CollectFrom(files, k, test_dir, cwd, tests) ==
    IF k > Len(files) THEN [raised |-> FALSE, tests |-> tests]
    ELSE LET file_tests == ParseFile(files[k], Join(test_dir, FileNames[k]), cwd)
         IN  IF file_tests.raised THEN [raised |-> TRUE, tests |-> tests]
             ELSE CollectFrom(files, k + 1, test_dir, cwd,
                              tests \o file_tests.tests)

\* TestCollector(test_dir).collect_tests() over a directory of several files
CollectFiles ==
    /\ col.pc = "new"
    /\ \E cwd \in Roots, test_dir \in TestDirs :
        LET r == CollectFrom(col.files, 1, test_dir, AbsPath(<<cwd>>), <<>>)
        IN  col' = [col EXCEPT !.pc = IF r.raised THEN "aborted" ELSE "collected",
                               !.cwd = cwd, !.test_dir = test_dir,
                               !.tests = r.tests]
    /\ UNCHANGED <<taskQueue, resultQueue, faultBudget, now, wk, ctl, nodeKey,
                   nd, lockKey, lk, hist>>

\* ------------------------------------------------------ the specification
InitHist ==
    [pushed |-> {}, dispatched |-> 0, delivered |-> EmptyBag,
     appended |-> EmptyBag, zero_reads |-> 0,
     last_write |-> 0, unregistered |-> FALSE, lock_grants |-> {},
     hb_failed |-> FALSE, drain_failed |-> FALSE]

\* The store is empty, no process has run yet; started is the set of worker
\* processes that will run, each with its --max-tasks
InitQueues(started, faults) ==
    /\ taskQueue = <<>>
    /\ resultQueue = <<>>
    /\ faultBudget = faults
    /\ now = 0
    /\ \E mt \in [started -> MaxTasksChoices] :
        wk = [w \in Workers |-> IF w \in started THEN InitWorker(mt[w])
                                                ELSE AbsentWorker]
    /\ ctl = InitController(1)
    /\ hist = InitHist

\* No registry key, no lock; nodeStarted: the worker process followed thread
\* by thread is about to call run_worker
InitRegistry(nodeStarted) ==
    /\ nodeKey = NoNodeKey
    /\ nd = InitNode(nodeStarted)
    /\ lockKey = NoLockKey
    /\ lk = [n \in Workers |-> [pc |-> "idle", result |-> "none"]]
    /\ col = NoCollector

InitWith(started, faults) == InitQueues(started, faults) /\ InitRegistry(FALSE)

\* One controller and one worker
Init == InitWith({1}, MaxFaults)

Worker(w) ==
    \/ WStart(w)
    \/ WLoop(w)
    \/ WExecute(w)
    \/ WPushResult(w)
    \/ WInterrupt(w)
    \/ WCrash(w)

\* collect_and_distribute_tests
Dispatch ==
    \/ CtlCollect
    \/ CtlClearTasks
    \/ CtlClearResults
    \/ CtlPush

\* main in controller mode: dispatch, wait, collect the results, report
Controller ==
    \/ Dispatch
    \/ CtlWaitInit
    \/ CtlWaitIter
    \/ CtlDrainStep
    \/ CtlReport

\* One controller run beside one worker; store calls may fail
Next ==
    \/ \E w \in Workers : Worker(w)
    \/ Controller

Spec == Init /\ [][Next]_vars

\* run_worker() without --max-tasks: max_tasks = None
Unlimited == \A w \in Workers : wk[w].max_tasks = None

InitFair == Init /\ Unlimited

\* The controller's steps are taken: its process is scheduled and its sleep
\* returns; the worker may stop, crash or hang at any step
SpecFair == InitFair /\ [][Next]_vars /\ WF_vars(Controller)

\* Controller runs one after the other beside one worker, the store reliable
NextRuns ==
    \/ Next
    \/ CtlNextRun

InitRuns == InitWith({1}, 0)

SpecRuns == InitRuns /\ [][NextRuns]_vars

\* All the workers pop while one controller dispatches; store calls may fail
\* and a worker may die at any step
PopWorker(w) ==
    \/ WStart(w)
    \/ WLoop(w)
    \/ WExecute(w)
    \/ WPushResult(w)
    \/ WCrash(w)

NextPop ==
    \/ \E w \in Workers : PopWorker(w)
    \/ Dispatch

InitPop == InitWith(Workers, MaxFaults) /\ Unlimited

SpecPop == InitPop /\ [][NextPop]_vars

\* A client of the queue API alone: clear_queue, push_tasks of N tasks, then
\* queue-size reads, on a store that may hold an earlier run's tasks; no
\* worker pops
InitQueue ==
    /\ InitRegistry(FALSE)
    /\ resultQueue = <<>>
    /\ faultBudget = MaxFaults
    /\ now = 0
    /\ hist = InitHist
    /\ wk = [w \in Workers |-> AbsentWorker]
    /\ \E stale \in 0..MaxTests, n \in 0..MaxTests :
        /\ taskQueue = create_tasks(stale, 0)
        /\ ctl = [InitController(1) EXCEPT !.pc = "clear_tasks",
                                           !.tasks = create_tasks(n, 1)]

NextQueue ==
    \/ CtlClearTasks
    \/ CtlClearResults
    \/ CtlPush
    \/ CtlWaitInit
    \/ CtlWaitIter

SpecQueue == InitQueue /\ [][NextQueue]_vars

\* Collections of one source file, from any checkout and with any test_dir
InitCollect ==
    /\ taskQueue = <<>>
    /\ resultQueue = <<>>
    /\ faultBudget = 0
    /\ now = 0
    /\ wk = [w \in Workers |-> AbsentWorker]
    /\ ctl = InitController(1)
    /\ hist = InitHist
    /\ nodeKey = NoNodeKey
    /\ nd = InitNode(FALSE)
    /\ lockKey = NoLockKey
    /\ lk = [n \in Workers |-> [pc |-> "idle", result |-> "none"]]
    /\ \E src \in Sources : col = [NoCollector EXCEPT !.pc = "new", !.source = src]

SpecCollect == InitCollect /\ [][Collect]_vars

\* balance_tests on any collected list of at most MaxRecords records
InitBalance ==
    /\ taskQueue = <<>>
    /\ resultQueue = <<>>
    /\ faultBudget = 0
    /\ now = 0
    /\ wk = [w \in Workers |-> AbsentWorker]
    /\ ctl = InitController(1)
    /\ hist = InitHist
    /\ nodeKey = NoNodeKey
    /\ nd = InitNode(FALSE)
    /\ lockKey = NoLockKey
    /\ lk = [n \in Workers |-> [pc |-> "idle", result |-> "none"]]
    /\ \E n \in 0..MaxRecords : \E m \in [1..n -> MarkerSets] :
        col = [NoCollector EXCEPT
                 !.pc = "ready",
                 !.tests = [i \in 1..n |-> [test_id |-> i, markers |-> m[i]]]]

SpecBalance == InitBalance /\ [][Balance]_vars

\* create_tasks on any collected list of at most MaxRecords records
InitTasks ==
    /\ taskQueue = <<>>
    /\ resultQueue = <<>>
    /\ faultBudget = 0
    /\ now = 0
    /\ wk = [w \in Workers |-> AbsentWorker]
    /\ ctl = InitController(1)
    /\ hist = InitHist
    /\ nodeKey = NoNodeKey
    /\ nd = InitNode(FALSE)
    /\ lockKey = NoLockKey
    /\ lk = [n \in Workers |-> [pc |-> "idle", result |-> "none"]]
    /\ \E n \in 0..MaxRecords : \E m \in [1..n -> TimeoutMarkerSets] :
        col = [NoCollector EXCEPT
                 !.pc = "ready",
                 !.tests = [i \in 1..n |-> [test_id |-> i, markers |-> m[i]]]]

SpecTasks == InitTasks /\ [][CreateTasks]_vars

\* Collections of a directory of at most MaxFiles files, any of them
\* unparseable
InitFiles ==
    /\ taskQueue = <<>>
    /\ resultQueue = <<>>
    /\ faultBudget = 0
    /\ now = 0
    /\ wk = [w \in Workers |-> AbsentWorker]
    /\ ctl = InitController(1)
    /\ hist = InitHist
    /\ nodeKey = NoNodeKey
    /\ nd = InitNode(FALSE)
    /\ lockKey = NoLockKey
    /\ lk = [n \in Workers |-> [pc |-> "idle", result |-> "none"]]
    /\ \E n \in 0..MaxFiles : \E files \in [1..n -> FileContents] :
        col = [NoCollector EXCEPT !.pc = "new", !.files = files]

SpecFiles == InitFiles /\ [][CollectFiles]_vars

\* generate_report on any drained list of at most MaxResults results, each
\* one that execute_task can return on some node
InitReport ==
    /\ InitRegistry(FALSE)
    /\ taskQueue = <<>>
    /\ resultQueue = <<>>
    /\ faultBudget = 0
    /\ now = 0
    /\ wk = [w \in Workers |-> AbsentWorker]
    /\ hist = InitHist
    /\ \E n \in 0..MaxResults :
        \E node \in [1..n -> Workers], outcome \in [1..n -> Outcomes] :
            ctl = [InitController(1) EXCEPT
                     !.pc = "report",
                     !.results = [i \in 1..n |->
                                    execute_task(Task(i, 1), node[i], outcome[i])]]

SpecReport == InitReport /\ [][CtlReport]_vars

\* The nodes acquire and release one lock name while time passes
NextLock ==
    \/ \E n \in Workers : LockAcquire(n) \/ LockReleaseGet(n) \/ LockReleaseDel(n)
    \/ Tick

InitLock == InitQueues({}, MaxFaults) /\ InitRegistry(FALSE)

SpecLock == InitLock /\ [][NextLock]_vars

\* Scenario A: W workers with max_tasks = k, W*k tasks pushed to the empty
\* queue by push_tasks, a reliable store, no crash and no interrupt
InitScenarioA ==
    /\ InitRegistry(FALSE)
    /\ taskQueue = <<>>
    /\ resultQueue = <<>>
    /\ faultBudget = 0
    /\ now = 0
    /\ hist = InitHist
    /\ \E W \in 1..NumWorkers, k \in 0..MaxTests :
        /\ wk = [w \in Workers |-> IF w <= W THEN InitWorker(k) ELSE AbsentWorker]
        /\ ctl = [InitController(1) EXCEPT !.pc = "push",
                                           !.tasks = create_tasks(W * k, 1)]

AllStopped == \A w \in Workers : wk[w].pc \in {"absent", "stopped"}

\* collect_results once every worker has stopped: "after completion,
\* drain_all_results()"
ScenarioDrain ==
    /\ UNCHANGED regVars
    /\ ctl.pc = "wait_init"
    /\ AllStopped
    /\ ctl' = [ctl EXCEPT !.pc = "drain"]
    /\ UNCHANGED <<taskQueue, resultQueue, faultBudget, now, wk, hist>>

ScenarioWorker(w) ==
    \/ WStart(w)
    \/ WLoop(w)
    \/ WExecute(w)
    \/ WPushResult(w)

ScenarioController ==
    \/ CtlPush
    \/ ScenarioDrain
    \/ CtlDrainStep

NextScenarioA ==
    \/ \E w \in Workers : ScenarioWorker(w)
    \/ ScenarioController

\* Every process is scheduled
SpecScenarioA ==
    /\ InitScenarioA
    /\ [][NextScenarioA]_vars
    /\ \A w \in Workers : WF_vars(ScenarioWorker(w))
    /\ WF_vars(ScenarioController)

\* One worker process with its heartbeat thread, its registry key and the clock
NextNode ==
    \/ NRegisterHset
    \/ NRegisterExpire
    \/ NStartHeartbeat
    \/ HbCheck
    \/ \E th \in Threads : UpdSet(th) \/ UpdHset(th) \/ UpdExpire(th)
    \/ HbWake
    \/ NLoop
    \/ NRun
    \/ NCountStatus
    \/ NCountExecuted
    \/ NPush
    \/ NStopHeartbeat
    \/ NJoin
    \/ NUnregister
    \/ NProcessExit
    \/ NCrash
    \/ Tick

InitNodeSpec == InitQueues({}, MaxFaults) /\ InitRegistry(TRUE)

SpecNode == InitNodeSpec /\ [][NextNode]_vars

\* ------------------------------------------------------------- the claims
Holders(task) == {w \in Workers : BagIn(<<task, w>>, hist.delivered)}

\* C1: under any interleaving of pop_task calls by the workers, each pushed
\* task instance is returned by pop_task at most once and so to at most one
\* worker, and every task a pop returns was pushed.
C1_PopDeliversAtMostOnce ==
    \A d \in BagToSet(hist.delivered) :
        /\ CopiesIn(d, hist.delivered) = 1
        /\ Holders(d[1]) = {d[2]}
        /\ d[1] \in hist.pushed

\* C1 witness: two workers hold two different popped tasks at the same time
C1_Witness ==
    /\ wk[1].pc = "execute"
    /\ wk[2].pc = "execute"
    /\ wk[1].task # wk[2].task
    /\ BagCardinality(hist.delivered) = 2

\* C3 (as claimed): once a worker that is still alive has gone past the push
\* of a task it popped, exactly one Result with that task and that worker's
\* node_id has been appended to the result channel, whatever the store did
\* at push time.
C3_ExactlyOneResultPerAttempt ==
    \A d \in BagToSet(hist.delivered) :
        (wk[d[2]].task # d[1]) => CopiesIn(d, hist.appended) = 1

\* C4: the controller declares completion only after the queue size read 0 on
\* at least three consecutive polls; its counter never exceeds the number of
\* consecutive zero reads so far, so a non-zero read resets it to zero.
C4_CompletionAfterThreeZeroReads ==
    /\ ctl.wait_exit = "complete" => hist.zero_reads >= 3
    /\ ctl.pc = "wait" => ctl.no_change_count <= hist.zero_reads

\* C4 witness: completion declared after a non-zero read had reset the count
C4_Witness ==
    /\ ctl.wait_exit = "complete"
    /\ ctl.end_time - ctl.start_time > 3 * CheckInterval

\* Keys by which a report could say how the wait ended
CompletionKeys == {"incomplete", "complete", "completed", "timed_out", "status"}
ReportKeys(report) == DOMAIN report \cup DOMAIN report.summary

\* C6 (as claimed): the report of a run whose wait ended by the timeout marks
\* the run as incomplete.
C6_TimedOutReportMarkedIncomplete ==
    (ctl.pc = "done" /\ ctl.wait_exit = "timeout")
        => ReportKeys(ctl.report) \cap CompletionKeys # {}

InQueue(q) == {q[i] : i \in 1..Len(q)}

\* C7 (as claimed): when the wait phase of a run begins, the task queue holds
\* only tasks built in this run and the result channel holds no Result pushed
\* before this run's dispatch.
C7_WaitStartsOnClearedStore ==
    ctl.pc = "wait_init" =>
        /\ \A task \in InQueue(taskQueue) : task.run = ctl.run
        /\ \A result \in InQueue(resultQueue) : result.epoch = ctl.run

\* C8 (as claimed): a worker that crashed, at whatever step, is no longer
\* returned by get_active_nodes once the 300 s TTL has passed since the last
\* write of its record.
C8_DeadWorkerLeavesRegistry ==
    (nd.pc.main = "crashed" /\ now >= hist.last_write + NodeTTL)
        => 1 \notin get_active_nodes

\* C9 (as claimed): once run_worker has returned after unregister_node deleted
\* the key, the worker's record is absent from the registry: no heartbeat tick
\* that was in flight at stop_heartbeat writes it again.
C9_NoRecordAfterUnregister ==
    (nd.pc.main = "returned" /\ hist.unregistered) => 1 \notin get_active_nodes

TaskIds(results) == {results[i].task_id : i \in 1..Len(results)}

\* The end of scenario A: every worker has stopped and the drain has returned
\* exactly N results, each with a final status, covering every pushed task_id
ScenarioADone ==
    /\ AllStopped
    /\ ctl.pc = "report"
    /\ Len(ctl.results) = Len(ctl.tasks)
    /\ \A i \in 1..Len(ctl.results) : ctl.results[i].status \in Statuses
    /\ TaskIds(ctl.results) = {ctl.tasks[i].task_id : i \in 1..Len(ctl.tasks)}

\* C2 (as claimed): with N = W*k tasks, W workers with max_tasks = k, no crash
\* and no store failure, every worker eventually stops and the drain then
\* returns exactly N results with final statuses covering every task_id.
C2_ScenarioACompletes == <>ScenarioADone

\* The same for max_tasks >= 1, the case of the spec's scenario A
C2_ScenarioACompletesPositive ==
    (\A w \in Workers : wk[w].max_tasks # 0) => <>ScenarioADone

\* C5: whatever the workers and the queue do, the controller, once waiting,
\* leaves the wait loop, drains the results and writes the report.
C5_WaitTerminates == (ctl.pc = "wait") ~> (ctl.pc = "done")

\* C5 witness: the report is written after a timeout with tasks still queued
C5_Witness ==
    /\ ctl.pc = "done"
    /\ ctl.wait_exit = "timeout"
    /\ taskQueue # <<>>

\* C10: an acquire_lock on a lock whose key exists returns a false value and
\* leaves the key (holder and TTL) as it is, whoever calls; while the key
\* exists at most one acquire has returned True on it, the holder's, and
\* exactly one when no store call failed.
C10_AcquireIsSetIfAbsent ==
    /\ [](lockKey.present =>
            /\ hist.lock_grants \subseteq {lockKey.value}
            /\ (faultBudget = MaxFaults => hist.lock_grants = {lockKey.value}))
    /\ [][\A n \in Workers :
            (LockAcquire(n) /\ lockKey.present) =>
                (Falsy(lk'[n].result) /\ lockKey' = lockKey)]_vars

\* C10 witness: node 1 holds the lock, node 2 was refused, and one acquire
\* has returned True
C10_Witness ==
    /\ lockKey.present
    /\ lockKey.value = 1
    /\ lk[2].result = "None"
    /\ hist.lock_grants = {1}

\* C11: a release_lock by node n that finds, at its DEL, a lock key whose
\* stored holder is another node leaves that key as it is, under every
\* interleaving with expiry and with other nodes' acquire_lock.
C11_ReleaseOnlyByHolder ==
    [][\A n \in Workers :
        (LockReleaseDel(n) /\ lockKey.present /\ lockKey.value # n)
            => lockKey' = lockKey]_vars

\* The status execute_task gives for the way the external call ended
Classified(outcome, status) ==
    /\ (status = "passed") <=> (outcome = "rc0")
    /\ (status = "failed") <=> (outcome = "rc1")
    /\ (status = "timeout") <=> (outcome = "TimeoutExpired")
    /\ (status = "error") <=> (outcome = "Exception")

\* C13: the Result execute_task returns has the one status of its outcome
\* (passed: code 0, failed: non-zero code, timeout: the call timed out,
\* error: another exception), and every Result returned or lying in the
\* result channel has one of the four statuses, never "unknown".
C13_StatusClassifiesOutcome ==
    /\ \A w \in Workers : wk[w].pc = "push" =>
        /\ Classified(wk[w].outcome, wk[w].result.status)
        /\ wk[w].result.status \in Statuses
    /\ \A result \in InQueue(resultQueue) : result.status \in Statuses

\* C13 witness: an execution that raised has returned an error Result, and a
\* Result lies in the channel
C13_Witness ==
    /\ wk[1].pc = "push"
    /\ wk[1].outcome = "Exception"
    /\ wk[1].result.status = "error"
    /\ resultQueue # <<>>

\* C14: a worker given an integer max_tasks >= 0 never has executed more than
\* max_tasks tasks, and once it has executed max_tasks it holds no further
\* popped task.
C14_AtMostMaxTasks ==
    \A w \in Workers : wk[w].max_tasks # None =>
        /\ wk[w].tasks_executed <= wk[w].max_tasks
        /\ wk[w].tasks_executed >= wk[w].max_tasks
                => wk[w].pc \notin {"execute", "push"}

HasFailure(results) ==
    \E i \in 1..Len(results) : results[i].status \in {"failed", "error"}

\* C18: when the controller process exits after its report, the exit code is
\* non-zero exactly when a drained Result is failed or error; all passed or
\* timeout, or no result at all, gives 0, after completion as after timeout.
C18_ExitCodeIffFailure ==
    ctl.pc = "done" => ((ctl.exit_code # 0) <=> HasFailure(ctl.results))

\* C18 witness: the wait timed out, a timeout Result was drained, exit code 0
C18_Witness ==
    /\ ctl.pc = "done"
    /\ ctl.wait_exit = "timeout"
    /\ ctl.exit_code = 0
    /\ \E i \in 1..Len(ctl.results) : ctl.results[i].status = "timeout"

\* C12: whatever the outcome of execute_task (non-zero code, timeout, other
\* exception), the worker's next step has a Result with a final status to
\* push; push_result then appends it (when the store serves the call) and the
\* worker is back at the head of its loop, about to pop.
C12_TaskFailureNeverStopsWorker ==
    [][\A w \in Workers :
        /\ WExecute(w) =>
            /\ wk'[w].pc = "push"
            /\ wk'[w].result.task_id = wk[w].task.task_id
            /\ wk'[w].result.status \in Statuses
        /\ WPushResult(w) =>
            /\ wk'[w].pc = "loop"
            /\ faultBudget' = faultBudget =>
                   resultQueue' = Append(resultQueue,
                                         Stored(wk[w].result, hist.dispatched))]_vars

\* C12 witness: after an error Result and a timeout Result of worker 1 the
\* worker has popped again
C12_Witness ==
    /\ wk[1].pc = "loop"
    /\ wk[1].tasks_executed = 2
    /\ \E r1, r2 \in InQueue(resultQueue) :
        /\ r1.node_id = 1 /\ r1.status = "error"
        /\ r2.node_id = 1 /\ r2.status = "timeout"

\* The main thread is in execute_task's run or between it and push_result
ResultPending == nd.pc.main = "push"

\* C15: while the Result of the task a worker executed has not been pushed,
\* the worker's published NodeInfo status is "running"; "idle" is published
\* only after the push.
C15_RunningUntilResultPushed ==
    (ResultPending /\ nodeKey.present) => nodeKey.status = "running"

\* C16: an interrupt does not cut a task in execution: from executing, a
\* worker that is not killed stays executing until it holds the task's Result
\* for the push; it never goes from executing to stopped.
C16_InterruptLetsTaskFinish ==
    [][\A w \in Workers :
        (wk[w].pc = "execute" /\ wk'[w].pc # "crashed") =>
            wk'[w].pc \in {"execute", "push"}]_vars

\* C17: a failed store write of the heartbeat leaves the heartbeat thread in
\* its loop (asleep until the next tick) and the main thread where it was;
\* the heartbeat thread ends only when running is False or the process ends.
C17_HeartbeatFailureNotFatal ==
    /\ [](nd.pc.hb = "exited" =>
            (~nd.running \/ nd.pc.main \in {"returned", "crashed"}))
    /\ [][(hist'.hb_failed /\ ~hist.hb_failed) =>
            /\ nd'.pc.hb = "sleep"
            /\ nd'.pc.main = nd.pc.main
            /\ nd'.running = nd.running]_vars

\* C17 witness: after a failed heartbeat write, a later tick's HSET has been
\* written while the main thread runs a task
C17_Witness ==
    /\ hist.hb_failed
    /\ nd.pc.hb = "expire"
    /\ hist.last_write = now
    /\ now > 0
    /\ nd.pc.main = "run"

\* C19: after clear_queue and push_tasks of N tasks (N >= 0), with no pop
\* in between and every store call served, each get_queue_size read is N.
C19_QueueSizeAfterPush ==
    (/\ ctl.pc = "wait"
     /\ ctl.last_queue_size # NoQueueSize
     /\ faultBudget = MaxFaults) => ctl.last_queue_size = Len(ctl.tasks)

\* C19 witness: the size read after clearing and pushing MaxTests tasks
C19_Witness ==
    /\ ctl.pc = "wait"
    /\ faultBudget = MaxFaults
    /\ Len(ctl.tasks) = MaxTests
    /\ ctl.last_queue_size = MaxTests

\* The (task, node) pairs of a sequence of Results, with multiplicity
RECURSIVE Attempts(_)
Attempts(results) ==
    IF results = <<>> THEN EmptyBag
    ELSE SetToBag({<<Task(Head(results).task_id, Head(results).run),
                     Head(results).node_id>>}) (+) Attempts(Tail(results))

\* C20: whatever the interleaving of push_result with the drain's LPOPs, in
\* a drain whose store calls are served every Result appended to the result
\* channel is exactly once in the drained list or still in the channel; each
\* LPOP of the drain hands over the oldest Result and the drain ends only on
\* an empty channel, so the Results pushed before it started are all returned.
C20_DrainLosesNothing ==
    /\ [](~hist.drain_failed =>
            Attempts(ctl.results \o resultQueue) = hist.appended)
    /\ [][(CtlDrainStep /\ ~hist'.drain_failed) =>
            /\ ctl'.results \o resultQueue' = ctl.results \o resultQueue
            /\ ctl'.pc = "report" => resultQueue = <<>>]_vars

\* C20 witness: a drain has returned one Result, and a second, pushed after
\* its last LPOP, is in the channel
C20_Witness ==
    /\ ctl.pc = "report"
    /\ ~hist.drain_failed
    /\ Len(ctl.results) = 1
    /\ Len(resultQueue) = 1

\* q is what is left of seq after some of its first elements were taken
IsSuffix(q, seq) ==
    /\ Len(q) <= Len(seq)
    /\ q = SubSeq(seq, Len(seq) - Len(q) + 1, Len(seq))

\* C21: both lists are first in, first out.  The task queue is at every
\* moment the tail end of the pushed sequence, every pop that the store
\* serves takes its head, a Result is appended at the tail of the result
\* channel and the drain takes the head, so the drained list is in push order.
C21_BothListsFifo ==
    /\ [](ctl.pc \in {"wait_init", "wait", "drain", "report", "done"}
            => IsSuffix(taskQueue, ctl.tasks))
    /\ [][\A w \in Workers :
            /\ (WLoop(w) /\ taskQueue' # taskQueue) =>
                /\ taskQueue' = Tail(taskQueue)
                /\ wk'[w].task \in {Head(taskQueue), NoTask}
            /\ (WPushResult(w) /\ resultQueue' # resultQueue) =>
                /\ Len(resultQueue') = Len(resultQueue) + 1
                /\ SubSeq(resultQueue', 1, Len(resultQueue)) = resultQueue]_vars
    /\ [][(CtlDrainStep /\ resultQueue' # resultQueue) =>
            ctl'.results = Append(ctl.results, Head(resultQueue))]_vars

\* C21 witness: the first of two pushed tasks was popped, executed and its
\* Result drained before the second task's Result
C21_Witness ==
    /\ Len(ctl.tasks) = 2
    /\ Len(ctl.results) = 2
    /\ ctl.results[1].task_id = ctl.tasks[1].task_id
    /\ ctl.results[2].task_id = ctl.tasks[2].task_id

\* The tasks in the queue or held by a worker
TasksAbout == (InQueue(taskQueue) \cup {wk[w].task : w \in Workers}) \ {NoTask}

\* The copies of task in the queue
Queued(task) == Cardinality({i \in 1..Len(taskQueue) : taskQueue[i] = task})

\* The deliveries of task to any worker
Delivered(task) ==
    BagCardinality([d \in {e \in BagToSet(hist.delivered) : e[1] = task}
                        |-> CopiesIn(d, hist.delivered)])

\* C22: every task in the queue or in flight has retry_count = 0 <=
\* max_retries; the task queue grows only by the one push_tasks of the run,
\* and no task is in the queue or delivered more than once in all, whatever
\* Results come back and whatever becomes of the workers.
C22_ControllerNeverRetries ==
    /\ [](\A task \in TasksAbout :
            /\ task.retry_count = 0
            /\ task.retry_count <= task.max_retries
            /\ Queued(task) + Delivered(task) <= 1)
    /\ [][Len(taskQueue') > Len(taskQueue) =>
            /\ ctl.pc = "push"
            /\ ctl'.pc = "wait_init"
            /\ taskQueue' = taskQueue \o ctl.tasks]_vars

\* C22 witness: a failed Result has been drained, the worker that held the
\* other task is dead, and the queue is empty
C22_Witness ==
    /\ ctl.pc = "done"
    /\ Len(ctl.tasks) = 2
    /\ \E i \in 1..Len(ctl.results) : ctl.results[i].status = "failed"
    /\ wk[1].pc = "crashed"
    /\ wk[1].task # NoTask
    /\ taskQueue = <<>>

C24_CrashLosesTask ==
    \A w \in Workers :
        (wk[w].pc = "crashed" /\ wk[w].task # NoTask) =>
            /\ wk[w].task \notin InQueue(taskQueue)
            /\ \A v \in Workers : ~BagIn(<<wk[w].task, v>>, hist.appended)
            /\ \A result \in InQueue(resultQueue) :
                   Task(result.task_id, result.run) # wk[w].task

\* C24 witness: worker 1 died holding a task while worker 2 has executed the
\* other one and the queue is empty
C24_Witness ==
    /\ wk[1].pc = "crashed"
    /\ wk[1].task # NoTask
    /\ wk[2].tasks_executed = 1
    /\ taskQueue = <<>>

\* No store call failed, no worker died or was interrupted with a task
NoMishap ==
    /\ faultBudget = MaxFaults
    /\ \A w \in Workers :
        /\ wk[w].pc # "crashed"
        /\ wk[w].pc = "stopped" => wk[w].task = NoTask

\* C25: completion declared by the debounce, with no crash and no store
\* failure, only says that the queue is empty: each dispatched task then has
\* its Result drained or in the channel, or is still with a worker that is
\* executing it, and in that last case the report has fewer Results than
\* tasks; such an execution exists.
C25_CompletionIsApproximate ==
    (ctl.pc = "done" /\ ctl.wait_exit = "complete" /\ NoMishap) =>
        \A i \in 1..Len(ctl.tasks) :
            \/ \E j \in 1..Len(ctl.results) :
                   Task(ctl.results[j].task_id, ctl.results[j].run) = ctl.tasks[i]
            \/ \E result \in InQueue(resultQueue) :
                   Task(result.task_id, result.run) = ctl.tasks[i]
            \/ \E w \in Workers :
                   wk[w].task = ctl.tasks[i] /\ wk[w].pc \in {"execute", "push"}

\* C25 witness: completion was declared and the report written while worker 1
\* is still executing, and the report has fewer Results than tasks dispatched
C25_Witness ==
    /\ ctl.pc = "done"
    /\ ctl.wait_exit = "complete"
    /\ NoMishap
    /\ wk[1].pc = "execute"
    /\ ctl.report.summary.total < Len(ctl.tasks)

\* C26: from the timeout exit of the wait on, no step of the controller
\* changes the task queue, a worker or the node registry: tasks stay queued
\* and the workers go on.
C26_TimeoutIsCooperative ==
    [][(ctl' # ctl /\ ctl'.wait_exit = "timeout") =>
        /\ taskQueue' = taskQueue
        /\ wk' = wk
        /\ nodeKey' = nodeKey
        /\ nd' = nd]_vars

\* C26 witness: the controller timed out, drained nothing and finished; a
\* task is still queued and the worker has pushed a Result since
C26_Witness ==
    /\ ctl.pc = "done"
    /\ ctl.wait_exit = "timeout"
    /\ ctl.results = <<>>
    /\ taskQueue # <<>>
    /\ resultQueue # <<>>
    /\ wk[1].pc = "loop"

\* C29: two records with equal test_file and test_name have equal task_id
\* (create_tasks takes it from test_id), in one collection and across two
\* collections of the same sources, whatever working directory and test_dir.
C29_TaskIdFunctionOfFileAndName ==
    \A r1 \in InQueue(col.tests \o col.before) :
        \A r2 \in InQueue(col.tests \o col.before) :
            (r1.test_file = r2.test_file /\ r1.test_name = r2.test_name)
                => r1.test_id = r2.test_id

\* The test definitions of a source: <<line, test_name>> of each def test_*
\* at module scope or directly inside a class Test*
Expected(src) ==
    {<<i, <<IF src[i].parent = 0 THEN <<>> ELSE src[src[i].parent].name,
            src[i].name>>>> :
        i \in {j \in 1..Len(src) :
                /\ IsTestFunction(src, j)
                /\ \/ src[j].parent = 0
                   \/ /\ src[j].parent # 0
                      /\ src[src[j].parent].kind = "ClassDef"
                      /\ startswith(src[src[j].parent].name, "Test")}}

\* C30: a collection yields one record for each test definition of the file,
\* with the plain name at module scope and Class::name inside a class Test*,
\* and no other record.
C30_OneRecordPerTestDefinition ==
    col.pc \in {"collected", "again"} =>
        /\ Len(col.tests) = Cardinality(Expected(col.source))
        /\ \A e \in Expected(col.source) :
            \E i \in 1..Len(col.tests) :
                /\ col.tests[i].line_number = e[1]
                /\ col.tests[i].test_name = e[2]

RECURSIVE Flatten(_)
Flatten(buckets) ==
    IF buckets = <<>> THEN <<>> ELSE Head(buckets) \o Flatten(Tail(buckets))

\* C27: balance_tests(num_workers) returns exactly num_workers buckets, and
\* they partition the list: every record is at exactly one place of exactly
\* one bucket, the sizes sum to the number of records, and an empty list gives
\* num_workers empty buckets.
C27_BucketsPartitionTests ==
    col.pc = "balanced" =>
        /\ Len(col.buckets) = col.num_workers
        /\ Len(Flatten(col.buckets)) = Len(col.tests)
        /\ \A i \in 1..Len(col.tests) :
            Cardinality({k \in 1..Len(Flatten(col.buckets)) :
                            Flatten(col.buckets)[k] = col.tests[i]}) = 1
        /\ col.tests = <<>> => \A b \in 1..Len(col.buckets) : col.buckets[b] = <<>>

C27_Witness ==
    /\ col.pc = "balanced"
    /\ col.num_workers >= 2
    /\ Len(col.tests) > col.num_workers
    /\ \A b \in 1..Len(col.buckets) : col.buckets[b] # <<>>

RECURSIVE Total(_)
Total(bucket) ==
    IF bucket = <<>> THEN 0
    ELSE estimate_test_duration(Head(bucket)) + Total(Tail(bucket))

Largest(totals) == CHOOSE t \in totals : \A u \in totals : u <= t

\* The largest bucket total of a list of buckets
MaxTotal(buckets) == Largest({Total(buckets[b]) : b \in 1..Len(buckets)})

\* The smallest possible largest bucket total over all ways of putting the
\* records into num_workers buckets
Optimal(tests, num_workers) ==
    LET TotalOf(f, b) ==
            Total(SelectSeq(tests, LAMBDA t : f[t.test_id] = b))
        makespans ==
            {Largest({TotalOf(f, b) : b \in 1..num_workers}) :
                f \in [1..Len(tests) -> 1..num_workers]}
    IN  CHOOSE t \in makespans : \A u \in makespans : t <= u

\* C28: with two or more buckets, the largest bucket total that balance_tests
\* produces is at most 4/3 of the smallest possible largest bucket total.
C28_WithinFourThirdsOfOptimal ==
    (col.pc = "balanced" /\ col.num_workers >= 2) =>
        3 * MaxTotal(col.buckets) <= 4 * Optimal(col.tests, col.num_workers)

C28_Witness ==
    /\ col.pc = "balanced"
    /\ col.num_workers >= 2
    /\ MaxTotal(col.buckets) > Optimal(col.tests, col.num_workers)

\* C31: create_tasks gives one task per collected record, in order, with
\* retry_count 0 and timeout 900 for a record marked integration (also when
\* marked slow as well), else 600 for one marked slow, else 300.
C31_OneTaskPerRecordWithTimeout ==
    (col.pc = "tasks") =>
        /\ Len(col.tasks) = Len(col.tests)
        /\ \A i \in 1..Len(col.tests) :
            /\ col.tasks[i].task_id = col.tests[i].test_id
            /\ col.tasks[i].retry_count = 0
            /\ col.tasks[i].timeout =
                IF "integration" \in col.tests[i].markers THEN 900
                ELSE IF "slow" \in col.tests[i].markers THEN 600
                ELSE 300

C31_Witness ==
    /\ col.pc = "tasks"
    /\ \E i \in 1..Len(col.tasks) :
        col.tests[i].markers = {"slow", "integration"} /\ col.tasks[i].timeout = 900
    /\ \E i \in 1..Len(col.tasks) :
        col.tests[i].markers = {"slow"} /\ col.tasks[i].timeout = 600
    /\ \E i \in 1..Len(col.tasks) :
        col.tests[i].markers = {"api"} /\ col.tasks[i].timeout = 300

\* The records of a collection that come from file k
RecordsOf(tests, test_dir, k) ==
    SelectSeq(tests, LAMBDA t : t.test_id[1] = Join(test_dir, FileNames[k]))

\* C32: a file that does not parse never aborts the collection; whatever the
\* files and wherever the unparseable ones are among them, the collection
\* holds for each parseable file the records that parsing it yields, in the
\* order of the files, and no record of an unparseable file.
C32_UnparseableFileIsSkipped ==
    /\ col.pc # "aborted"
    /\ (col.pc = "collected" /\ col.files # <<>>) =>
        /\ \A k \in 1..Len(col.files) :
            RecordsOf(col.tests, col.test_dir, k) =
                IF col.files[k].parseable
                THEN _parse_test_file(col.files[k].source,
                                      Join(col.test_dir, FileNames[k]),
                                      AbsPath(<<col.cwd>>))
                ELSE <<>>
        /\ \A i \in 1..Len(col.tests) : \A j \in i..Len(col.tests) :
            \A k, l \in 1..Len(col.files) :
                (/\ col.tests[i].test_id[1] = Join(col.test_dir, FileNames[k])
                 /\ col.tests[j].test_id[1] = Join(col.test_dir, FileNames[l]))
                    => k <= l

\* An unparseable file between two files whose tests were collected
C32_Witness ==
    /\ col.pc = "collected"
    /\ \E k \in 1..Len(col.files) :
        /\ ~col.files[k].parseable
        /\ \E j \in 1..(k - 1) : RecordsOf(col.tests, col.test_dir, j) # <<>>
        /\ \E l \in (k + 1)..Len(col.files) :
            RecordsOf(col.tests, col.test_dir, l) # <<>>

RECURSIVE SumOver(_, _)
SumOver(stats, nodes) ==
    IF nodes = {} THEN 0
    ELSE LET n == CHOOSE x \in nodes : TRUE
         IN  stats[n].total + SumOver(stats, nodes \ {n})

\* The results of a list that have a node and a status
With(results, n, status) ==
    {i \in 1..Len(results) : results[i].node_id = n /\ results[i].status = status}

\* C33: in every report, total = passed + failed + error + timeout = the
\* number of results drained; the node totals sum to total; each node's
\* passed and failed are the counts of its results with those statuses and
\* its total is at least their sum.
C33_ReportAddsUp ==
    (ctl.pc = "done" /\ ctl.report.summary.total # None) =>
        LET summary == ctl.report.summary
            stats == ctl.report.node_statistics
        IN  /\ summary.total = Len(ctl.results)
            /\ summary.total =
                summary.passed + summary.failed + summary.error + summary.timeout
            /\ SumOver(stats, DOMAIN stats) = summary.total
            /\ \A n \in DOMAIN stats :
                /\ stats[n].passed = Cardinality(With(ctl.results, n, "passed"))
                /\ stats[n].failed = Cardinality(With(ctl.results, n, "failed"))
                /\ stats[n].total >= stats[n].passed + stats[n].failed

\* A report over two nodes, one of whose results is neither passed nor failed
C33_Witness ==
    /\ ctl.pc = "done"
    /\ ctl.report.summary.total # None
    /\ Cardinality(DOMAIN ctl.report.node_statistics) = 2
    /\ ctl.report.summary.passed > 0
    /\ ctl.report.summary.error + ctl.report.summary.timeout > 0

\* C34: the controller declares completion at the third consecutive poll
\* that reads queue size 0: once three consecutive zero reads have been made
\* it is no longer in the wait loop, and when it leaves the loop as complete
\* exactly three consecutive zero reads have been made.
C34_CompleteAtThirdZeroRead ==
    /\ ctl.pc = "wait" => hist.zero_reads < 3
    /\ ctl.wait_exit = "complete" => hist.zero_reads = 3

\* C35: every Result the controller drains in a run that dispatched tasks is
\* the Result of a Task dispatched in that run; a Result of a task of an
\* earlier run, pushed by a worker that was still executing it, is in no
\* later run's drained list.
C35_ResultsOfThisRunOnly ==
    ctl.tasks # <<>> =>
        \A result \in InQueue(ctl.results) : result.run = ctl.run

\* C36: the heartbeat never puts a stale status into node_info: while the
\* main thread is inside the external run of execute_task the status is
\* "running", and from the return of execute_task until the next task starts
\* it is "idle".
C36_HeartbeatNeverWritesStaleStatus ==
    /\ nd.pc.main = "run" => nd.status = "running"
    /\ nd.pc.main \in {"push", "loop"} => nd.status = "idle"

\* C37: get_all_results loses no Result it has removed from the store: at
\* every step of a drain, also one whose store call fails, the Results drained
\* so far together with the channel are what they were before the step.
C37_DrainKeepsWhatItPopped ==
    [][CtlDrainStep =>
        ctl'.results \o resultQueue' = ctl.results \o resultQueue]_vars

\* C38: a queue-size read that failed is never counted as a zero read: the
\* poll in which the store call fails neither raises the debounce counter nor
\* declares completion, and completion is declared only on an empty task
\* queue.
C38_FailedReadIsNotAZeroRead ==
    /\ []((ctl.pc = "drain" /\ ctl.wait_exit = "complete") => taskQueue = <<>>)
    /\ [][(CtlWaitIter /\ faultBudget' < faultBudget) =>
            /\ ctl'.no_change_count <= ctl.no_change_count
            /\ ctl'.wait_exit # "complete"]_vars

\* A thread's HSET of node_info was served: the record as it is now is in
\* the store
HsetServed ==
    \/ \E th \in Threads : nd.pc[th] = "hset" /\ nd'.pc[th] = "expire"
    \/ nd.pc.main = "register" /\ nd'.pc.main = "register_expire"

\* C39: the counters count every executed task: between tasks tests_executed
\* is the number of tasks the worker has executed, whatever their status, and
\* every record that the main thread or the heartbeat writes to the store has
\* tests_passed + tests_failed <= tests_executed.
C39_CountersCountEveryTask ==
    /\ [](nd.pc.main = "loop" => nd.info.tests_executed = nd.tasks_executed)
    /\ [][HsetServed =>
            nd.info.tests_passed + nd.info.tests_failed
                <= nd.info.tests_executed]_vars

=============================================================================
